---- MODULE Spec2Model ----
(***************************************************************************)
(* Book library REST API (debjit-stack/BookLibrary): the book aggregate    *)
(* (availability, borrow ledger, reviews), its controller operations and   *)
(* the list pagination, as state machines.                                 *)
(*                                                                         *)
(* One stored book document is followed (variable book: <<>> when the id   *)
(* is not in the collection, <<doc>> when it is).  Ratings are integers,   *)
(* averageRating is held in tenths (40 is 4.0).                            *)
(***************************************************************************)
EXTENDS Integers, Sequences, FiniteSets, TLC

VARIABLES
  book,     \* the stored document of the book id: <<>> or <<doc>>
  req,      \* the last request served
  res,      \* its response (status code and message)
  net,      \* observer: initial availableCopies - borrows + returns of a run
  moved,    \* observer: a borrow or return has succeeded in the run
  scen,     \* observer: position in the scenario of spec section 8
  ver,      \* the stored document's version key __v
  pc,       \* per concurrent handler: "idle", "loaded" or "done"
  local,    \* per handler: the document findById returned to it
  lver,     \* per handler: the version key of that document
  preq,     \* per handler: its request
  pres,     \* per handler: its response
  avail0,   \* observer: availableCopies before the handlers start
  nDocs,    \* number of documents that match the list filter
  listReq,  \* the last list request (page, limit; 0 when not given)
  listRes,  \* its response (books and pagination)
  cat,      \* the catalogue: the stored books in the order they were created
  qReq,     \* the catalogue request served
  qRes,     \* its response
  lib,      \* the collection: the stored document of every book id in it
  nextId,   \* the id the next created book gets
  libReq,   \* the last request on the collection
  libRes,   \* its response
  gone,     \* observer: the ids deleted so far
  tally,    \* observer: the statistics replayed from the requests so far
  meta,     \* _id and createdAt of the stored document of book: <<>> or <<m>>
  issued,   \* number of ids generated so far
  clock,    \* the time of the server
  sent,     \* the body of the last create or update request, as the caller sent it
  born,     \* observer: the id and the time the system gave the book at creation
  reviewers,   \* the reviewerEmail of each stored review of book (NoStr: none)
  reviewedBy,  \* observer: the authenticated users whose review was accepted
  hist,     \* per publication year, the number of stored books of that year
  undated,  \* the number of stored books without a publication year
  yearRes,  \* the per-year breakdown of the statistics response
  aiReq,    \* the request to an assistant route being served
  aiPc,     \* its handler: "idle", awaiting a collaborator, or "returned"
  aiCalls,  \* calls to the generative-text collaborator made for it
  aiGot,    \* what the collaborator answered
  aiSent,   \* the responses sent for it
  aiLog     \* the exchanges completed before it

vars == <<book, req, res, net, moved, scen, ver, pc, local, lver, preq, pres, avail0,
          nDocs, listReq, listRes, cat, qReq, qRes,
          lib, nextId, libReq, libRes, gone, tally,
          meta, issued, clock, sent, born, reviewers, reviewedBy,
          hist, undated, yearRes, aiReq, aiPc, aiCalls, aiGot, aiSent, aiLog>>

concVars == <<ver, pc, local, lver, preq, pres, avail0>>
listVars == <<nDocs, listReq, listRes>>
catVars == <<cat, qReq, qRes>>
libVars == <<lib, nextId, libReq, libRes, gone, tally>>
bodyVars == <<meta, issued, clock, sent, born>>
authVars == <<reviewers, reviewedBy>>
yearVars == <<hist, undated, yearRes>>
aiVars == <<aiReq, aiPc, aiCalls, aiGot, aiSent, aiLog>>
extVars == <<catVars, libVars, bodyVars, authVars, yearVars, aiVars>>

(* ------------------------------ bounds --------------------------------- *)

\* largest totalCopies a create or update request carries
MaxTotal == 2
\* largest availableCopies a create or update request carries
MaxAvail == 3
\* reviews stored on the book before addReview requests stop, where the
\* requests carry every availability object
ShortReviews == 1
\* reviews stored on the book before addReview requests stop, where the
\* requests carry no availability object
MaxReviews == 3
\* documents in the collection for the list operation
MaxDocs == 25
\* largest page number a list request asks for
MaxPage == 4

Emails == {"a@x.com", "b@x.com", "c@x.com"}
Ratings == 1..5
Limits == {1, 3, 10}

(* --------------------------- request values ---------------------------- *)

\* a field the request body does not carry
NoNum == -1
NoStr == "absent"

Statuses == {"Available", "Borrowed", "Reserved", "Maintenance"}

\* bookModel.js availability defaults, equal to the Joi defaults of
\* bookCreateSchema.availability
DefaultStatus == "Available"
DefaultTotalCopies == 1
DefaultAvailableCopies == 1

\* the availability objects a validated create/update body can carry:
\* has = FALSE when the body has no availability key
AvailInputs ==
  {[has |-> FALSE, status |-> NoStr, totalCopies |-> NoNum, availableCopies |-> NoNum]}
  \cup [has : {TRUE}, status : Statuses \cup {NoStr},
        totalCopies : (0..MaxTotal) \cup {NoNum},
        availableCopies : (0..MaxAvail) \cup {NoNum}]

\* Joi .default(...) on each key of the availability object, and the same
\* defaults of the mongoose schema when the key (or the object) is absent
WithDefaults(a) ==
  [status |-> IF a.status = NoStr THEN DefaultStatus ELSE a.status,
   totalCopies |-> IF a.totalCopies = NoNum THEN DefaultTotalCopies ELSE a.totalCopies,
   availableCopies |-> IF a.availableCopies = NoNum THEN DefaultAvailableCopies
                       ELSE a.availableCopies]

(* ------------------------------ responses ------------------------------ *)

Response(c, m) == [code |-> c, message |-> m]
NoResponse == Response(0, "")
NotFound == Response(404, "Book not found")
NoReq == [op |-> "none", email |-> NoStr]
Request(o, e) == [op |-> o, email |-> e]

(* ------------------------- the book document -------------------------- *)

RECURSIVE SumSeq(_)
SumSeq(s) == IF s = <<>> THEN 0 ELSE Head(s) + SumSeq(Tail(s))

\* Math.round(x) for x = n/d >= 0: floor(n/d + 1/2)
MathRound(n, d) == (2 * n + d) \div (2 * d)

\* Math.round((totalRating / reviews.length) * 10) / 10, in tenths
AverageOf(reviews) == MathRound(10 * SumSeq(reviews), Len(reviews))

\* PreSave with the average truncated instead of rounded
PreSaveTruncate(d) ==
  LET r == IF Len(d.reviews) > 0
           THEN [d EXCEPT !.averageRating = (10 * SumSeq(d.reviews)) \div Len(d.reviews),
                          !.totalReviews = Len(d.reviews)]
           ELSE [d EXCEPT !.averageRating = 0, !.totalReviews = 0]
  IN IF r.availableCopies > r.totalCopies
     THEN [r EXCEPT !.availableCopies = r.totalCopies]
     ELSE r

\* the hook without the clamp of availableCopies
PreSaveNoClamp(d) ==
  IF Len(d.reviews) > 0
  THEN [d EXCEPT !.averageRating = AverageOf(d.reviews), !.totalReviews = Len(d.reviews)]
  ELSE [d EXCEPT !.averageRating = 0, !.totalReviews = 0]

\* bookSchema.pre('save'): recompute the rating fields, clamp availableCopies
PreSave(d) ==
  LET r == IF Len(d.reviews) > 0
           THEN [d EXCEPT !.averageRating = AverageOf(d.reviews),
                          !.totalReviews = Len(d.reviews)]
           ELSE [d EXCEPT !.averageRating = 0, !.totalReviews = 0]
  IN IF r.availableCopies > r.totalCopies
     THEN [r EXCEPT !.availableCopies = r.totalCopies]
     ELSE r

\* new Book(body): schema defaults for everything the body does not carry
NewDoc(a) ==
  LET v == WithDefaults(a)
  IN [status |-> v.status, totalCopies |-> v.totalCopies,
      availableCopies |-> v.availableCopies, borrowedBy |-> <<>>,
      reviews |-> <<>>, averageRating |-> 0, totalReviews |-> 0]

\* Book.create(req.body): new document, then save() with its pre('save') hook
CreateDoc(a) == PreSave(NewDoc(a))

\* findByIdAndUpdate(id, body): $set of the body's top-level keys, no save
\* hook.  An availability key replaces the whole nested object, so the stored
\* object keeps only what the body carries and borrowedBy reads back empty.
ApplyUpdate(d, a) ==
  IF a.has
  THEN LET v == WithDefaults(a)
       IN [d EXCEPT !.status = v.status, !.totalCopies = v.totalCopies,
                    !.availableCopies = v.availableCopies, !.borrowedBy = <<>>]
  ELSE d

\* bookSchema.methods.addReview
AddReviewMethod(d, rating) == PreSave([d EXCEPT !.reviews = Append(@, rating)])

\* the guard of bookSchema.methods.borrowBook
BorrowThrows(d) == d.availableCopies <= 0

\* bookSchema.methods.borrowBook past its guard
BorrowBookMethod(d, email) ==
  LET n == d.availableCopies - 1
      b == [d EXCEPT !.borrowedBy = Append(@, email), !.availableCopies = n,
                     !.status = IF n = 0 THEN "Borrowed" ELSE @]
  IN PreSave(b)

\* borrowedBy.findIndex(borrow => borrow.email === borrowerEmail): 0 is JS -1
FindIndex(ledger, email) ==
  IF \E i \in 1..Len(ledger) : ledger[i] = email
  THEN CHOOSE i \in 1..Len(ledger) :
         ledger[i] = email /\ \A j \in 1..(i - 1) : ledger[j] # email
  ELSE 0

\* borrowedBy.splice(i, 1)
Splice(s, i) == SubSeq(s, 1, i - 1) \o SubSeq(s, i + 1, Len(s))

\* bookSchema.methods.returnBook past its guard
ReturnBookMethod(d, email) ==
  LET i == FindIndex(d.borrowedBy, email)
      n == d.availableCopies + 1
      b == [d EXCEPT !.borrowedBy = Splice(@, i), !.availableCopies = n,
                     !.status = IF n > 0 THEN "Available" ELSE @]
  IN PreSave(b)

(* ----------------------- controller operations ------------------------ *)

Outcome(d, r) == [doc |-> d, res |-> r]

\* an Error thrown by a model method and not caught by the controller goes
\* through catchAsync to the error handler with the thrown message
Thrown(m) == Response(500, m)

\* BorrowBookCtl with the copies check written < 0
BorrowBookCtlStrict(d, email) ==
  IF d.availableCopies < 0
  THEN Outcome(d, Response(400, "No copies available for borrowing"))
  ELSE IF FindIndex(d.borrowedBy, email) # 0
  THEN Outcome(d, Response(400, "You have already borrowed this book"))
  ELSE IF BorrowThrows(d)
  THEN Outcome(d, Thrown("No copies available for borrowing"))
  ELSE Outcome(BorrowBookMethod(d, email), Response(200, "Book borrowed successfully"))

\* BorrowBookCtl without the existing-borrow check
BorrowBookCtlNoDupCheck(d, email) ==
  IF d.availableCopies <= 0
  THEN Outcome(d, Response(400, "No copies available for borrowing"))
  ELSE IF BorrowThrows(d)
  THEN Outcome(d, Thrown("No copies available for borrowing"))
  ELSE Outcome(BorrowBookMethod(d, email), Response(200, "Book borrowed successfully"))

\* bookController.borrowBook once findById has returned document d
BorrowBookCtl(d, email) ==
  IF d.availableCopies <= 0
  THEN Outcome(d, Response(400, "No copies available for borrowing"))
  ELSE IF FindIndex(d.borrowedBy, email) # 0
  THEN Outcome(d, Response(400, "You have already borrowed this book"))
  ELSE IF BorrowThrows(d)
  THEN Outcome(d, Thrown("No copies available for borrowing"))
  ELSE Outcome(BorrowBookMethod(d, email), Response(200, "Book borrowed successfully"))

\* ReturnBookCtl when the method does not test borrowIndex === -1
ReturnBookCtlUnguarded(d, email) ==
  Outcome(ReturnBookMethod(d, email), Response(200, "Book returned successfully"))

\* bookController.returnBook once findById has returned document d: the
\* method's throw is caught and answered with status 400
ReturnBookCtl(d, email) ==
  IF FindIndex(d.borrowedBy, email) = 0
  THEN Outcome(d, Response(400, "No borrow record found for this email"))
  ELSE Outcome(ReturnBookMethod(d, email), Response(200, "Book returned successfully"))

\* bookController.addReview once findById has returned document d (no route
\* installs req.user, so the reviewer-email check is skipped)
AddReviewCtl(d, rating) ==
  Outcome(AddReviewMethod(d, rating), Response(201, "Review added successfully"))

(* ---------------- scenario of spec section 8 (observer) ---------------- *)

\* the create request "a book with totalCopies=2"
ScenarioCreate ==
  [has |-> TRUE, status |-> NoStr, totalCopies |-> 2, availableCopies |-> NoNum]

\* the same request with availableCopies given as well
ScenarioCreateBoth ==
  [has |-> TRUE, status |-> NoStr, totalCopies |-> 2, availableCopies |-> 2]

\* position in the scenario after request (op, email): 1 created, 2 borrow a,
\* 3 borrow b, 4 borrow c, 5 return a; 11..15 for ScenarioCreateBoth; 0 off it
ScenStep(s, op, email) ==
  IF s \in {1, 11} /\ op = "borrow" /\ email = "a@x.com" THEN s + 1
  ELSE IF s \in {2, 12} /\ op = "borrow" /\ email = "b@x.com" THEN s + 1
  ELSE IF s \in {3, 13} /\ op = "borrow" /\ email = "c@x.com" THEN s + 1
  ELSE IF s \in {4, 14} /\ op = "return" /\ email = "a@x.com" THEN s + 1
  ELSE 0

(* ------------------------- sequential requests ------------------------- *)

Exists == book # <<>>
Doc == book[1]

\* POST /api/books
CreateBook(a) ==
  /\ ~Exists
  /\ book' = <<CreateDoc(a)>>
  /\ req' = Request("create", NoStr)
  /\ res' = Response(201, "Book created successfully")
  /\ scen' = IF a = ScenarioCreate THEN 1 ELSE IF a = ScenarioCreateBoth THEN 11 ELSE 0

\* PUT /api/books/:id
UpdateBook(a) ==
  /\ req' = Request("update", NoStr)
  /\ IF Exists
     THEN /\ book' = <<ApplyUpdate(Doc, a)>>
          /\ res' = Response(200, "Book updated successfully")
     ELSE /\ book' = book
          /\ res' = NotFound
  /\ scen' = 0

\* DELETE /api/books/:id
DeleteBook ==
  /\ req' = Request("delete", NoStr)
  /\ book' = <<>>
  /\ res' = IF Exists THEN Response(200, "Book deleted successfully") ELSE NotFound
  /\ scen' = 0

\* POST /api/books/:id/reviews
AddReview(rating) ==
  /\ req' = Request("review", NoStr)
  /\ IF Exists
     THEN /\ book' = <<AddReviewCtl(Doc, rating).doc>>
          /\ res' = AddReviewCtl(Doc, rating).res
     ELSE /\ book' = book
          /\ res' = NotFound
  /\ scen' = 0

\* POST /api/books/:id/borrow
BorrowBook(email) ==
  /\ req' = Request("borrow", email)
  /\ IF Exists
     THEN /\ book' = <<BorrowBookCtl(Doc, email).doc>>
          /\ res' = BorrowBookCtl(Doc, email).res
     ELSE /\ book' = book
          /\ res' = NotFound
  /\ scen' = ScenStep(scen, "borrow", email)

\* POST /api/books/:id/return
ReturnBook(email) ==
  /\ req' = Request("return", email)
  /\ IF Exists
     THEN /\ book' = <<ReturnBookCtl(Doc, email).doc>>
          /\ res' = ReturnBookCtl(Doc, email).res
     ELSE /\ book' = book
          /\ res' = NotFound
  /\ scen' = ScenStep(scen, "return", email)

(* ------------- observer: successful borrows and returns ---------------- *)

\* net is the availableCopies at the start of the current run of borrow and
\* return requests, minus the borrows and plus the returns that succeeded in
\* it; moved says whether any has.  Any other request starts a new run.
Count ==
  IF req'.op \in {"borrow", "return"}
  THEN /\ net' = IF res'.code # 200 THEN net
                 ELSE IF req'.op = "borrow" THEN net - 1 ELSE net + 1
       /\ moved' = (moved \/ res'.code = 200)
  ELSE /\ net' = IF book' # <<>> THEN book'[1].availableCopies ELSE 0
       /\ moved' = FALSE

Procs == {1, 2}

IdleConc ==
  /\ ver = 0
  /\ pc = [p \in Procs |-> "idle"]
  /\ local = [p \in Procs |-> <<>>]
  /\ lver = [p \in Procs |-> 0]
  /\ preq = [p \in Procs |-> NoReq]
  /\ pres = [p \in Procs |-> NoResponse]
  /\ avail0 = 0

IdleList ==
  /\ nDocs = 0
  /\ listReq = [page |-> 0, limit |-> 0]
  /\ listRes = [books |-> <<>>, currentPage |-> 0, totalPages |-> 0, totalBooks |-> 0,
                hasNextPage |-> FALSE, hasPrevPage |-> FALSE, limit |-> 0]

\* no catalogue request has been served
NoQuery == [op |-> "none"]
NoAnswer == [op |-> "none"]

IdleCat ==
  /\ cat = <<>>
  /\ qReq = NoQuery
  /\ qRes = NoAnswer

\* what one stored document adds to the statistics
NoTally == [totalBooks |-> 0, availableBooks |-> 0, borrowedBooks |-> 0, totalReviews |-> 0]

IdleLib ==
  /\ lib = <<>>
  /\ nextId = 1
  /\ libReq = [op |-> "none", id |-> 0, email |-> NoStr]
  /\ libRes = NoResponse
  /\ gone = {}
  /\ tally = NoTally

\* a body without an availability key
NoAvail == [has |-> FALSE, status |-> NoStr, totalCopies |-> NoNum, availableCopies |-> NoNum]

\* a body without a reviews key
NoReviews == [has |-> FALSE, list |-> <<>>]

\* a body without averageRating, totalReviews, reviews, _id and createdAt
NoBody == [avail |-> NoAvail, averageRating |-> NoNum, totalReviews |-> NoNum,
           reviews |-> NoReviews, id |-> NoNum, createdAt |-> NoNum]

IdleBody ==
  /\ meta = <<>>
  /\ issued = 0
  /\ clock = 1
  /\ sent = NoBody
  /\ born = <<>>

IdleAuth ==
  /\ reviewers = <<>>
  /\ reviewedBy = {}

IdleYears ==
  /\ hist = <<>>
  /\ undated = 0
  /\ yearRes = NoAnswer

\* no request to the assistant routes was made
IdleAi ==
  /\ aiReq = NoQuery
  /\ aiPc = "idle"
  /\ aiCalls = 0
  /\ aiGot = NoAnswer
  /\ aiSent = <<>>
  /\ aiLog = <<>>

IdleExt ==
  /\ IdleCat
  /\ IdleLib
  /\ IdleBody
  /\ IdleAuth
  /\ IdleYears
  /\ IdleAi

IdleBook ==
  /\ book = <<>>
  /\ req = NoReq
  /\ res = NoResponse
  /\ net = 0
  /\ moved = FALSE
  /\ scen = 0

IdleBase ==
  /\ IdleBook
  /\ IdleConc
  /\ IdleList

Init ==
  /\ IdleBase
  /\ IdleExt

\* the model stops adding reviews at n stored reviews
ReviewsBelow(n) == Exists => Len(Doc.reviews) < n

\* a sequential request leaves the observer of borrows and returns, the
\* concurrent handlers and the list untouched
Unobserved == UNCHANGED <<net, moved, concVars, listVars, extVars>>

\* a sequential request under the observer of borrows and returns
Observed == Count /\ UNCHANGED <<concVars, listVars, extVars>>

\* requests on one book id, one after another
Next ==
  \/ \E a \in AvailInputs : CreateBook(a) /\ Unobserved
  \/ \E a \in AvailInputs : UpdateBook(a) /\ Unobserved
  \/ DeleteBook /\ Unobserved
  \/ \E r \in Ratings : ReviewsBelow(ShortReviews) /\ AddReview(r) /\ Unobserved
  \/ \E e \in Emails : BorrowBook(e) /\ Unobserved
  \/ \E e \in Emails : ReturnBook(e) /\ Unobserved

Spec == Init /\ [][Next]_vars

\* the availability requests alone, with the observer of borrows and returns
NextLedger ==
  \/ \E a \in AvailInputs : CreateBook(a) /\ Observed
  \/ \E a \in AvailInputs : UpdateBook(a) /\ Observed
  \/ DeleteBook /\ Observed
  \/ \E e \in Emails : BorrowBook(e) /\ Observed
  \/ \E e \in Emails : ReturnBook(e) /\ Observed

SpecLedger == Init /\ [][NextLedger]_vars

\* a book that is created, borrowed, returned and deleted, never updated
NextLend ==
  \/ \E a \in AvailInputs : CreateBook(a) /\ Unobserved
  \/ DeleteBook /\ Unobserved
  \/ \E e \in Emails : BorrowBook(e) /\ Unobserved
  \/ \E e \in Emails : ReturnBook(e) /\ Unobserved

SpecLend == Init /\ [][NextLend]_vars

\* the same requests with bodies that carry no availability object, and
\* longer review lists
NextReviews ==
  \/ CreateBook(NoAvail) /\ Unobserved
  \/ UpdateBook(NoAvail) /\ Unobserved
  \/ DeleteBook /\ Unobserved
  \/ \E r \in Ratings : ReviewsBelow(MaxReviews) /\ AddReview(r) /\ Unobserved
  \/ \E e \in Emails : BorrowBook(e) /\ Unobserved
  \/ \E e \in Emails : ReturnBook(e) /\ Unobserved

SpecReviews == Init /\ [][NextReviews]_vars

(* ------------------- two requests on the same book -------------------- *)

\* Each handler awaits Book.findById, then runs the checks and the model
\* method on its own copy and awaits save().  save() sends the paths the
\* handler changed: $set for the scalar paths whose value differs from the
\* loaded one, $push for an array push (borrowedBy.push, reviews.push), and for
\* borrowedBy.splice a $set of the whole array that matches only while the
\* stored __v is the loaded one.  Every array change increments __v.

\* the scalar paths of the stored document after the $set of a save()
SetChanged(stored, before, after) ==
  [stored EXCEPT
     !.status = IF after.status # before.status THEN after.status ELSE @,
     !.totalCopies = IF after.totalCopies # before.totalCopies THEN after.totalCopies ELSE @,
     !.availableCopies = IF after.availableCopies # before.availableCopies
                         THEN after.availableCopies ELSE @,
     !.averageRating = IF after.averageRating # before.averageRating
                       THEN after.averageRating ELSE @,
     !.totalReviews = IF after.totalReviews # before.totalReviews
                      THEN after.totalReviews ELSE @]

\* the save() at the end of borrowBook
SaveBorrow(stored, before, after, email) ==
  [SetChanged(stored, before, after) EXCEPT !.borrowedBy = Append(@, email)]

\* the save() at the end of returnBook, when the version key matches
SaveReturn(stored, before, after) ==
  [SetChanged(stored, before, after) EXCEPT !.borrowedBy = after.borrowedBy]

\* the save() at the end of addReview
SaveReview(stored, before, after, rating) ==
  [SetChanged(stored, before, after) EXCEPT !.reviews = Append(@, rating)]

\* mongoose's VersionError, caught by returnBook's try/catch
VersionError == Response(400, "No matching document found for id")

\* the documents the handlers can find: a created book and up to two borrows
ConcInitDocs ==
  UNION {LET d0 == CreateDoc(a)
             d1 == BorrowBookCtl(d0, "a@x.com").doc
             d2 == BorrowBookCtl(d1, "b@x.com").doc
         IN {d0, d1, d2} : a \in AvailInputs}

InitConc ==
  /\ book \in {<<d>> : d \in ConcInitDocs}
  /\ avail0 = book[1].availableCopies
  /\ ver = 0
  /\ pc = [p \in Procs |-> "idle"]
  /\ local = [p \in Procs |-> <<>>]
  /\ lver = [p \in Procs |-> 0]
  /\ preq = [p \in Procs |-> NoReq]
  /\ pres = [p \in Procs |-> NoResponse]
  /\ req = NoReq
  /\ res = NoResponse
  /\ net = 0
  /\ moved = FALSE
  /\ scen = 0
  /\ IdleList
  /\ IdleExt

\* const book = await Book.findById(req.params.id)
Load(p, op, email) ==
  /\ pc[p] = "idle"
  /\ pc' = [pc EXCEPT ![p] = "loaded"]
  /\ local' = [local EXCEPT ![p] = book]
  /\ lver' = [lver EXCEPT ![p] = ver]
  /\ preq' = [preq EXCEPT ![p] = Request(op, email)]
  /\ UNCHANGED <<book, ver, pres, avail0>>

Finish(p, r) ==
  /\ pc' = [pc EXCEPT ![p] = "done"]
  /\ pres' = [pres EXCEPT ![p] = r]
  /\ UNCHANGED <<local, lver, preq, avail0>>

\* the rest of borrowBook: checks, book.borrowBook(req.body), response
FinishBorrow(p) ==
  /\ pc[p] = "loaded"
  /\ preq[p].op = "borrow"
  /\ LET o == BorrowBookCtl(local[p][1], preq[p].email)
     IN /\ IF o.res.code = 200
           THEN /\ book' = <<SaveBorrow(book[1], local[p][1], o.doc, preq[p].email)>>
                /\ ver' = ver + 1
           ELSE UNCHANGED <<book, ver>>
        /\ Finish(p, o.res)

\* the rest of returnBook: book.returnBook(req.body.email) in try/catch
FinishReturn(p) ==
  /\ pc[p] = "loaded"
  /\ preq[p].op = "return"
  /\ LET o == ReturnBookCtl(local[p][1], preq[p].email)
     IN IF o.res.code # 200
        THEN UNCHANGED <<book, ver>> /\ Finish(p, o.res)
        ELSE IF lver[p] # ver
        THEN UNCHANGED <<book, ver>> /\ Finish(p, VersionError)
        ELSE /\ book' = <<SaveReturn(book[1], local[p][1], o.doc)>>
             /\ ver' = ver + 1
             /\ Finish(p, o.res)

\* the rest of addReview: book.addReview(req.body), response
FinishReview(p, rating) ==
  /\ pc[p] = "loaded"
  /\ preq[p].op = "review"
  /\ LET o == AddReviewCtl(local[p][1], rating)
     IN /\ book' = <<SaveReview(book[1], local[p][1], o.doc, rating)>>
        /\ ver' = ver + 1
        /\ Finish(p, o.res)

\* a handler step leaves the sequential requests and the list untouched
Handlers == UNCHANGED <<req, res, net, moved, scen, listVars, extVars>>

NextConc ==
  \/ \E p \in Procs, e \in Emails : Load(p, "borrow", e) /\ Handlers
  \/ \E p \in Procs, e \in Emails : Load(p, "return", e) /\ Handlers
  \/ \E p \in Procs : Load(p, "review", NoStr) /\ Handlers
  \/ \E p \in Procs : FinishBorrow(p) /\ Handlers
  \/ \E p \in Procs : FinishReturn(p) /\ Handlers
  \/ \E p \in Procs, r \in Ratings : FinishReview(p, r) /\ Handlers

SpecConc == InitConc /\ [][NextConc]_vars

(* --------------------------- GET /api/books ---------------------------- *)

\* The documents that match the request's filter are named by their rank in
\* the request's sort order: 1..nDocs.

\* searchSchema defaults and the parseInt(...) || default of getAllBooks
DefaultPage == 1
DefaultLimit == 10
PageOf(q) == IF q.page = 0 THEN DefaultPage ELSE q.page
LimitOf(q) == IF q.limit = 0 THEN DefaultLimit ELSE q.limit

\* Math.ceil(a / b) for a >= 0, b > 0
MathCeil(a, b) == (a + b - 1) \div b

Min(a, b) == IF a < b THEN a ELSE b

\* find(filter).sort(sort).skip(skip).limit(limit) over n matching documents
FindPage(n, skip, limit) == [i \in 1..(IF n > skip THEN Min(limit, n - skip) ELSE 0) |-> skip + i]

\* getAllBooks with Math.floor for Math.ceil
GetAllBooksFloor(n, q) ==
  LET page == PageOf(q)
      limit == LimitOf(q)
      skip == (page - 1) * limit
      totalPages == n \div limit
  IN [books |-> FindPage(n, skip, limit), currentPage |-> page,
      totalPages |-> totalPages, totalBooks |-> n,
      hasNextPage |-> page < totalPages, hasPrevPage |-> page > 1, limit |-> limit]

\* bookController.getAllBooks: the books of the page and the pagination
GetAllBooks(n, q) ==
  LET page == PageOf(q)
      limit == LimitOf(q)
      skip == (page - 1) * limit
      totalPages == MathCeil(n, limit)
  IN [books |-> FindPage(n, skip, limit), currentPage |-> page,
      totalPages |-> totalPages, totalBooks |-> n,
      hasNextPage |-> page < totalPages, hasPrevPage |-> page > 1, limit |-> limit]

ListQueries == [page : 0..MaxPage, limit : Limits \cup {0}]

\* a step of the list leaves the book requests and the handlers untouched
Listing == UNCHANGED <<book, req, res, net, moved, scen, concVars, extVars>>

\* a created book that matches the filter
InsertMatching ==
  /\ nDocs < MaxDocs
  /\ nDocs' = nDocs + 1
  /\ UNCHANGED <<listReq, listRes>>

\* a deleted book that matched the filter
RemoveMatching ==
  /\ nDocs > 0
  /\ nDocs' = nDocs - 1
  /\ UNCHANGED <<listReq, listRes>>

\* GET /api/books?page=..&limit=..
ListBooks(q) ==
  /\ listReq' = q
  /\ listRes' = GetAllBooks(nDocs, q)
  /\ UNCHANGED nDocs

NextList ==
  \/ InsertMatching /\ Listing
  \/ RemoveMatching /\ Listing
  \/ \E q \in ListQueries : ListBooks(q) /\ Listing

SpecList == Init /\ [][NextList]_vars

(* ---------------- GET /api/books: query, filter and sort --------------- *)

\* largest number of books in the catalogue
MaxCat == 3

\* Texts are sequences of character codes: 65 is "A", 66 "B", 97 "a", 98 "b".
NoText == <<>>
Lower(c) == IF c >= 65 /\ c <= 90 THEN c + 32 ELSE c
LowerText(t) == [i \in 1..Len(t) |-> Lower(t[i])]

\* { $regex: pat, $options: 'i' } for a literal pat: s contains pat, whatever
\* the case of the letters
RegexI(pat, s) ==
  \E k \in 0..(Len(s) - Len(pat)) :
     LowerText(SubSeq(s, k + 1, k + Len(pat))) = LowerText(pat)

\* the order of two strings in a sort: by character code
RECURSIVE TextLess(_, _)
TextLess(a, b) ==
  IF b = <<>> THEN FALSE
  ELSE IF a = <<>> THEN TRUE
  ELSE IF Head(a) # Head(b) THEN Head(a) < Head(b)
  ELSE TextLess(Tail(a), Tail(b))

\* a stored book of the catalogue: its id and creation time are its rank in
\* the order of creation; averageRating is in tenths
Stored(f, i) ==
  [id |-> i, createdAt |-> i, title |-> f.title, author |-> f.author,
   description |-> f.description, genre |-> f.genre, tags |-> f.tags,
   publicationYear |-> f.publicationYear, averageRating |-> f.averageRating,
   totalReviews |-> f.totalReviews, status |-> f.status]

Fields(title, author, genre, tags, year, rating, reviews) ==
  [title |-> title, author |-> author, description |-> NoText, genre |-> genre,
   tags |-> tags, publicationYear |-> year, averageRating |-> rating,
   totalReviews |-> reviews, status |-> DefaultStatus]

\* the catalogues of at most n books with fields from samples
Catalogues(samples, n) ==
  UNION {{[i \in 1..k |-> Stored(fs[i], i)] : fs \in [1..k -> samples]} : k \in 0..n}

\* searchSchema: the defaults of sortBy, sortOrder, page and limit
SearchDefaultSortBy == "title"
SearchDefaultSortOrder == "asc"
SearchDefaultPage == 1
SearchDefaultLimit == 10
SearchMaxLimit == 100
SortFields == {"title", "author", "publicationYear", "averageRating", "createdAt"}

\* schema.validate with allowUnknown: false and nothing stripped: a key the
\* schema does not name is an error
QueryIsValidStrict(raw) ==
  /\ raw.unknown = NoStr
  /\ raw.sortBy \in SortFields \cup {NoStr}
  /\ raw.sortOrder \in {"asc", "desc", NoStr}
  /\ raw.page >= 0
  /\ raw.limit >= 0 /\ raw.limit <= SearchMaxLimit
  /\ raw.minRating = NoNum \/ (raw.minRating >= 0 /\ raw.minRating <= 50)
  /\ raw.availability \in Statuses \cup {NoStr}

\* schema.validate(req.query, ...) reports no error; raw.unknown is the value
\* of a parameter no schema names
QueryIsValid(raw) ==
  /\ raw.sortBy \in SortFields \cup {NoStr}
  /\ raw.sortOrder \in {"asc", "desc", NoStr}
  /\ raw.page >= 0
  /\ raw.limit >= 0 /\ raw.limit <= SearchMaxLimit
  /\ raw.minRating = NoNum \/ (raw.minRating >= 0 /\ raw.minRating <= 50)
  /\ raw.availability \in Statuses \cup {NoStr}

\* the value of schema.validate with stripUnknown: the keys of searchSchema
\* with their defaults; search, yearFrom and yearTo are not keys of the
\* schema and are removed, as is every other unknown key.  The middleware
\* stores it as req.query.
ValidateQuery(raw) ==
  [raw EXCEPT !.search = NoText,
              !.unknown = NoStr,
              !.yearFrom = NoNum,
              !.yearTo = NoNum,
              !.sortBy = IF @ = NoStr THEN SearchDefaultSortBy ELSE @,
              !.sortOrder = IF @ = NoStr THEN SearchDefaultSortOrder ELSE @,
              !.page = IF @ = 0 THEN SearchDefaultPage ELSE @,
              !.limit = IF @ = 0 THEN SearchDefaultLimit ELSE @]

QueryValidationFailed == [op |-> "list", code |-> 400, message |-> "Query validation failed"]

\* the filter getAllBooks builds from req.query, applied to book b
Matches(b, q) ==
  /\ q.search # NoText =>
       (RegexI(q.search, b.title) \/ RegexI(q.search, b.author)
          \/ RegexI(q.search, b.description))
  /\ (q.genre # NoStr /\ q.genre # "All") => b.genre = q.genre
  /\ q.availability # NoStr => b.status = q.availability
  /\ q.author # NoText => RegexI(q.author, b.author)
  /\ q.yearFrom # NoNum => (b.publicationYear # NoNum /\ b.publicationYear >= q.yearFrom)
  /\ q.yearTo # NoNum => (b.publicationYear # NoNum /\ b.publicationYear <= q.yearTo)
  /\ (q.minRating # NoNum /\ q.minRating # 0) => b.averageRating >= q.minRating

\* the sort object getAllBooks builds from req.query
SortOf(q) ==
  IF q.sortBy # NoStr
  THEN [field |-> q.sortBy, dir |-> IF q.sortOrder = "desc" THEN -1 ELSE 1]
  ELSE [field |-> "createdAt", dir |-> -1]

\* a is not after b in the ascending order of a field; a book without a
\* publication year comes before every year
KeyLeq(a, b, field) ==
  CASE field = "title" -> ~TextLess(b.title, a.title)
    [] field = "author" -> ~TextLess(b.author, a.author)
    [] field = "publicationYear" -> a.publicationYear <= b.publicationYear
    [] field = "averageRating" -> a.averageRating <= b.averageRating
    [] field = "createdAt" -> a.createdAt <= b.createdAt

InOrder(a, b, sort) ==
  IF sort.dir = 1 THEN KeyLeq(a, b, sort.field) ELSE KeyLeq(b, a, sort.field)

\* Book.find(filter).sort(sort): the ids of the matching books in an order
\* that respects the sort; books with equal keys come in any order
SortedFinds(c, q) ==
  LET M == {i \in 1..Len(c) : Matches(c[i], q)}
      n == Cardinality(M)
  IN {s \in [1..n -> M] :
        /\ \A i, j \in 1..n : s[i] = s[j] => i = j
        /\ \A i, j \in 1..n : i < j => InOrder(c[s[i]], c[s[j]], SortOf(q))}

\* .limit(k) of a sorted result
Take(s, k) == SubSeq(s, 1, Min(k, Len(s)))

\* the response of getAllBooks for the sorted matching ids
ListData(sorted, q) ==
  LET page == GetAllBooks(Len(sorted), q)
  IN [page EXCEPT !.books = [i \in 1..Len(page.books) |-> sorted[page.books[i]]]]

\* the fields of the books of the list catalogues
QuerySamples ==
  {Fields(<<65>>, <<99>>, "Fiction", {}, 1999, 0, 0),
   Fields(<<98>>, <<99>>, "Fiction", {}, 2001, 0, 0),
   Fields(<<66, 97>>, <<99>>, "Fiction", {}, NoNum, 0, 0),
   Fields(<<97>>, <<99>>, "Fiction", {}, 2000, 0, 0)}

\* the query strings of the list requests (0, NoNum, NoStr, NoText: not given)
CatQueries ==
  [search : {NoText, <<97>>, <<66>>}, yearFrom : {NoNum, 2000}, yearTo : {NoNum, 2000},
   sortBy : {NoStr, "createdAt", "title"}, sortOrder : {NoStr, "desc"},
   page : {0}, limit : {0, 1, 101},
   genre : {NoStr}, availability : {NoStr}, author : {NoText}, minRating : {NoNum},
   unknown : {NoStr}]

InitQuery ==
  /\ IdleBase
  /\ IdleLib
  /\ IdleBody
  /\ IdleAuth
  /\ IdleYears
  /\ IdleAi
  /\ cat \in Catalogues(QuerySamples, MaxCat)
  /\ qReq = NoQuery
  /\ qRes = NoAnswer

\* a catalogue request leaves everything else untouched
Asking == UNCHANGED <<book, req, res, net, moved, scen, concVars, listVars, libVars, bodyVars, authVars,
                     yearVars, aiVars, cat>>

\* GET /api/books: validateQuery(schemas.search), then getAllBooks
ListCatalogue(raw) ==
  /\ qReq = NoQuery
  /\ qReq' = [op |-> "list", query |-> raw]
  /\ IF QueryIsValid(raw)
     THEN \E s \in SortedFinds(cat, ValidateQuery(raw)) :
            qRes' = [op |-> "list", code |-> 200, data |-> ListData(s, ValidateQuery(raw))]
     ELSE qRes' = QueryValidationFailed

NextQuery ==
  \/ \E raw \in CatQueries : ListCatalogue(raw) /\ Asking

SpecQuery == InitQuery /\ [][NextQuery]_vars

\* books of two genres for the list requests with a genre
FilterSamples ==
  {Fields(t, <<99>>, g, {}, 2000, 0, 0) : t \in {<<65>>, <<98>>}, g \in {"Fiction", "Science"}}

\* list requests with a genre, the "All" sentinel, a parameter nobody knows,
\* a status and a sort field that does not exist
FilterQueries ==
  [search : {NoText}, yearFrom : {NoNum}, yearTo : {NoNum},
   sortBy : {NoStr, "createdAt", "isbn"}, sortOrder : {NoStr},
   page : {0}, limit : {0, 1},
   genre : {NoStr, "All", "Fiction"}, availability : {NoStr, "Borrowed"},
   author : {NoText}, minRating : {NoNum}, unknown : {NoStr, "x"}]

InitFilter ==
  /\ IdleBase
  /\ IdleLib
  /\ IdleBody
  /\ IdleAuth
  /\ IdleYears
  /\ IdleAi
  /\ cat \in Catalogues(FilterSamples, MaxCat)
  /\ qReq = NoQuery
  /\ qRes = NoAnswer

NextFilter ==
  \/ \E raw \in FilterQueries : ListCatalogue(raw) /\ Asking

SpecFilter == InitFilter /\ [][NextFilter]_vars

(* ------------------- the collection and its statistics ----------------- *)

\* number of book ids the collection hands out
MaxIds == 2

\* the borrower and the ratings of the requests on the collection
LibEmails == {"a@x.com"}
LibRatings == {2, 5}

\* the availability objects of the created books
LibInputs ==
  {NoAvail,
   [has |-> TRUE, status |-> "Reserved", totalCopies |-> NoNum, availableCopies |-> NoNum]}

Ids == 1..MaxIds
Has(id) == id \in DOMAIN lib
LibRequest(o, id, e) == [op |-> o, id |-> id, email |-> e]

\* the collection with the document of id replaced or added
Put(id, d) == [i \in DOMAIN lib \cup {id} |-> IF i = id THEN d ELSE lib[i]]
\* the collection without id
Drop(id) == [i \in DOMAIN lib \ {id} |-> lib[i]]

\* the response of deleteBook: findByIdAndDelete found no document
DeleteBookCtlUnchecked(found) == Response(200, "Book deleted successfully")

DeleteBookCtl(found) ==
  IF found THEN Response(200, "Book deleted successfully") ELSE NotFound

\* observer: what a document counts for in a replay of the requests
Counted(d) ==
  [totalBooks |-> 1,
   availableBooks |-> IF d.status = "Available" THEN 1 ELSE 0,
   borrowedBooks |-> IF d.status = "Borrowed" THEN 1 ELSE 0,
   totalReviews |-> Len(d.reviews)]

Plus(t, u) ==
  [totalBooks |-> t.totalBooks + u.totalBooks,
   availableBooks |-> t.availableBooks + u.availableBooks,
   borrowedBooks |-> t.borrowedBooks + u.borrowedBooks,
   totalReviews |-> t.totalReviews + u.totalReviews]

Minus(t, u) ==
  [totalBooks |-> t.totalBooks - u.totalBooks,
   availableBooks |-> t.availableBooks - u.availableBooks,
   borrowedBooks |-> t.borrowedBooks - u.borrowedBooks,
   totalReviews |-> t.totalReviews - u.totalReviews]

\* observer: the replayed statistics after the request on id
Replay(id) ==
  tally' = Plus(Minus(tally, IF Has(id) THEN Counted(lib[id]) ELSE NoTally),
                IF id \in DOMAIN lib' THEN Counted(lib'[id]) ELSE NoTally)

\* POST /api/books: the new document gets a fresh id
LibCreate(a) ==
  /\ nextId <= MaxIds
  /\ lib' = Put(nextId, CreateDoc(a))
  /\ nextId' = nextId + 1
  /\ libReq' = LibRequest("create", nextId, NoStr)
  /\ libRes' = Response(201, "Book created successfully")
  /\ gone' = gone
  /\ Replay(nextId)

\* DELETE /api/books/:id
LibDelete(id) ==
  /\ lib' = IF Has(id) THEN Drop(id) ELSE lib
  /\ libReq' = LibRequest("delete", id, NoStr)
  /\ libRes' = DeleteBookCtl(Has(id))
  /\ gone' = IF Has(id) THEN gone \cup {id} ELSE gone
  /\ nextId' = nextId
  /\ Replay(id)

\* a request that finds the document of id and runs a controller on it
LibServe(id, request, outcome) ==
  /\ libReq' = request
  /\ IF Has(id)
     THEN /\ lib' = Put(id, outcome.doc)
          /\ libRes' = outcome.res
     ELSE /\ lib' = lib
          /\ libRes' = NotFound
  /\ UNCHANGED <<nextId, gone>>
  /\ Replay(id)

\* POST /api/books/:id/borrow
LibBorrow(id, email) ==
  LibServe(id, LibRequest("borrow", id, email),
           IF Has(id) THEN BorrowBookCtl(lib[id], email) ELSE Outcome(<<>>, NotFound))

\* POST /api/books/:id/return
LibReturn(id, email) ==
  LibServe(id, LibRequest("return", id, email),
           IF Has(id) THEN ReturnBookCtl(lib[id], email) ELSE Outcome(<<>>, NotFound))

\* POST /api/books/:id/reviews
LibReview(id, rating) ==
  /\ Has(id) => Len(lib[id].reviews) < ShortReviews
  /\ LibServe(id, LibRequest("review", id, NoStr),
              IF Has(id) THEN AddReviewCtl(lib[id], rating) ELSE Outcome(<<>>, NotFound))

\* { $sum: ... } of a $group over the documents of S
RECURSIVE GroupSum(_, _)
GroupSum(f, S) ==
  IF S = {} THEN 0
  ELSE LET i == CHOOSE i \in S : TRUE IN f[i] + GroupSum(f, S \ {i})

\* an overview that counts the books with a copy on the shelf as available
OverviewByCopies(c) ==
  LET D == DOMAIN c
  IN [totalBooks |-> Cardinality(D),
      availableBooks |-> Cardinality({i \in D : c[i].availableCopies > 0}),
      borrowedBooks |-> Cardinality({i \in D : c[i].status = "Borrowed"}),
      totalReviews |-> GroupSum([i \in D |-> c[i].totalReviews], D)]

\* the overview of getBookStats: the $group over the whole collection, and
\* the literal zeros when the aggregation returns no group
Overview(c) ==
  LET D == DOMAIN c
  IN IF D = {}
     THEN [totalBooks |-> 0, availableBooks |-> 0, borrowedBooks |-> 0, totalReviews |-> 0]
     ELSE [totalBooks |-> GroupSum([i \in D |-> 1], D),
           availableBooks |->
             GroupSum([i \in D |-> IF c[i].status = "Available" THEN 1 ELSE 0], D),
           borrowedBooks |->
             GroupSum([i \in D |-> IF c[i].status = "Borrowed" THEN 1 ELSE 0], D),
           totalReviews |-> GroupSum([i \in D |-> c[i].totalReviews], D)]

\* GET /api/books/stats
LibStats ==
  /\ libReq' = LibRequest("stats", 0, NoStr)
  /\ libRes' = [code |-> 200, overview |-> Overview(lib)]
  /\ UNCHANGED <<lib, nextId, gone, tally>>

\* a request on the collection leaves everything else untouched
Serving == UNCHANGED <<book, req, res, net, moved, scen, concVars, listVars, catVars, bodyVars,
                      authVars, yearVars, aiVars>>

NextLib ==
  \/ \E a \in LibInputs : LibCreate(a) /\ Serving
  \/ \E id \in Ids : LibDelete(id) /\ Serving
  \/ \E id \in Ids, e \in LibEmails : LibBorrow(id, e) /\ Serving
  \/ \E id \in Ids, e \in LibEmails : LibReturn(id, e) /\ Serving
  \/ \E id \in Ids, r \in LibRatings : LibReview(id, r) /\ Serving
  \/ LibStats /\ Serving

SpecLib == Init /\ [][NextLib]_vars

(* ----------------------- GET /api/ai/similar/:id ------------------------ *)

\* the fields of the books of the similar-books catalogues
SimilarSamples ==
  {Fields(<<65>>, a, g, t, NoNum, r, 1) :
     a \in {<<99>>, <<100>>}, g \in {"Fiction", "Sci-Fi"}, t \in {{}, {"t"}}, r \in {30, 50}}

\* the limit of a similar-books request (0: not given)
SimilarLimits == {0, 1, 2}

SimilarDefaultLimit == 5

ReferenceNotFound == [op |-> "similar", code |-> 404, message |-> "Reference book not found"]

\* the ids of M in a descending order of averageRating; books with equal
\* ratings come in any order
ByRating(c, M) ==
  LET n == Cardinality(M)
  IN {s \in [1..n -> M] :
        /\ \A i, j \in 1..n : s[i] = s[j] => i = j
        /\ \A i, j \in 1..n : i < j => c[s[i]].averageRating >= c[s[j]].averageRating}

\* the filter of getSimilarBooks: another book with the genre, the author
\* or one of the tags of the reference
SimilarTo(c, id) ==
  {i \in 1..Len(c) :
     /\ i # id
     /\ \/ c[i].genre = c[id].genre
        \/ c[i].author = c[id].author
        \/ c[i].tags \cap c[id].tags # {}}

\* the filter of the second getSimilarBooks: the genre or the author
SimilarToUpdated(c, id) ==
  {i \in 1..Len(c) :
     /\ i # id
     /\ \/ c[i].genre = c[id].genre
        \/ c[i].author = c[id].author}

InitSimilar ==
  /\ IdleBase
  /\ IdleLib
  /\ IdleBody
  /\ IdleAuth
  /\ IdleYears
  /\ IdleAi
  /\ cat \in Catalogues(SimilarSamples, MaxCat)
  /\ qReq = NoQuery
  /\ qRes = NoAnswer

\* getSimilarBooks with limit = parseInt(req.query.limit) || 5
GetSimilarBooks(id, limit) ==
  /\ qReq = NoQuery
  /\ qReq' = [op |-> "similar", id |-> id, limit |-> limit]
  /\ IF id \in 1..Len(cat)
     THEN \E s \in ByRating(cat, SimilarTo(cat, id)) :
            qRes' = [op |-> "similar", code |-> 200,
                     similarBooks |-> Take(s, IF limit = 0 THEN SimilarDefaultLimit ELSE limit)]
     ELSE qRes' = ReferenceNotFound

\* the second getSimilarBooks: .limit(5), req.query is not read
GetSimilarBooksUpdated(id, limit) ==
  /\ qReq = NoQuery
  /\ qReq' = [op |-> "similar", id |-> id, limit |-> limit]
  /\ IF id \in 1..Len(cat)
     THEN \E s \in ByRating(cat, SimilarToUpdated(cat, id)) :
            qRes' = [op |-> "similar", code |-> 200, similarBooks |-> Take(s, 5)]
     ELSE qRes' = ReferenceNotFound

\* the repository holds both versions of the handler
NextSimilar ==
  \/ \E id \in 1..(MaxCat + 1), k \in SimilarLimits : GetSimilarBooks(id, k) /\ Asking
  \/ \E id \in 1..(MaxCat + 1), k \in SimilarLimits : GetSimilarBooksUpdated(id, k) /\ Asking

SpecSimilar == InitSimilar /\ [][NextSimilar]_vars

(* --------------- request bodies of create and update ------------------- *)

\* largest number of ids generated
MaxIssued == 2
\* latest time of the server
MaxClock == 3

\* the bodies a caller sends: an availability object or none, and values for
\* averageRating (tenths), totalReviews, _id and createdAt or none
BodyInputs ==
  [avail : {NoAvail, ScenarioCreateBoth}, averageRating : {NoNum, 50},
   totalReviews : {NoNum, 7}, id : {NoNum, 9}, createdAt : {NoNum, 0},
   reviews : {NoReviews, [has |-> TRUE, list |-> <<5>>]}]

\* validate leaves the body as the caller sent it
ValidateKeepUnknown(raw) == raw

\* validate(schema): schema.validate(req.body, {stripUnknown: true}) removes
\* the keys the book schema of the middleware does not name (reviews is one of
\* them); req.body = value
Validate(raw) ==
  [raw EXCEPT !.averageRating = NoNum, !.totalReviews = NoNum, !.reviews = NoReviews,
              !.id = NoNum, !.createdAt = NoNum]

\* the paths averageRating and totalReviews of a document set from a body
SetRatingPaths(d, body) ==
  [d EXCEPT !.averageRating = IF body.averageRating # NoNum THEN body.averageRating ELSE @,
            !.totalReviews = IF body.totalReviews # NoNum THEN body.totalReviews ELSE @]

\* the path reviews of a document set from a body
SetReviewsPath(d, body) ==
  [d EXCEPT !.reviews = IF body.reviews.has THEN body.reviews.list ELSE @]

\* Book.create(req.body): the document built from the body and the schema
\* defaults, saved with the pre('save') hook; _id and createdAt are generated
\* unless the body gives them
BookCreate(body, freshId, now) ==
  [doc |-> PreSave(SetReviewsPath(SetRatingPaths(NewDoc(body.avail), body), body)),
   meta |-> [id |-> IF body.id # NoNum THEN body.id ELSE freshId,
             createdAt |-> IF body.createdAt # NoNum THEN body.createdAt ELSE now]]

\* an update that puts the body in the place of the stored document
FindByIdAndUpdateReplace(d, body) ==
  SetReviewsPath(SetRatingPaths(NewDoc(body.avail), body), body)

\* Book.findByIdAndUpdate(id, req.body): the paths of the body are set, no
\* hook runs; _id and createdAt are immutable
FindByIdAndUpdate(d, body) ==
  SetReviewsPath(SetRatingPaths(ApplyUpdate(d, body.avail), body), body)

\* POST /api/books: validate(schemas.bookCreate), then createBook
CreateWithBody(raw) ==
  /\ ~Exists
  /\ issued < MaxIssued
  /\ clock < MaxClock
  /\ book' = <<BookCreate(Validate(raw), issued + 1, clock).doc>>
  /\ meta' = <<BookCreate(Validate(raw), issued + 1, clock).meta>>
  /\ born' = <<[id |-> issued + 1, createdAt |-> clock]>>
  /\ issued' = issued + 1
  /\ clock' = clock + 1
  /\ sent' = raw
  /\ req' = Request("create", NoStr)
  /\ res' = Response(201, "Book created successfully")
  /\ scen' = 0

\* PUT /api/books/:id: validate(schemas.bookUpdate), then updateBook
UpdateWithBody(raw) ==
  /\ clock < MaxClock
  /\ clock' = clock + 1
  /\ sent' = raw
  /\ req' = Request("update", NoStr)
  /\ IF Exists
     THEN /\ book' = <<FindByIdAndUpdate(Doc, Validate(raw))>>
          /\ res' = Response(200, "Book updated successfully")
     ELSE /\ book' = book
          /\ res' = NotFound
  /\ scen' = 0
  /\ UNCHANGED <<meta, issued, born>>

\* DELETE /api/books/:id
DeleteStored ==
  /\ DeleteBook
  /\ meta' = <<>>
  /\ born' = <<>>
  /\ UNCHANGED <<issued, clock, sent>>

\* a create, update or delete leaves the observers, the handlers, the list,
\* the catalogue and the collection untouched
Sending == UNCHANGED <<net, moved, concVars, listVars, catVars, libVars, authVars, yearVars, aiVars>>

NextBody ==
  \/ \E raw \in BodyInputs : CreateWithBody(raw) /\ Sending
  \/ \E raw \in BodyInputs : UpdateWithBody(raw) /\ Sending
  \/ DeleteStored /\ Sending
  \/ \E r \in Ratings : ReviewsBelow(ShortReviews) /\ AddReview(r) /\ Unobserved

SpecBody == Init /\ [][NextBody]_vars

\* bodies with a reviews key: an empty list, a list of one review
ReviewInputs ==
  [avail : {NoAvail, ScenarioCreateBoth}, averageRating : {NoNum}, totalReviews : {NoNum, 0},
   id : {NoNum}, createdAt : {NoNum},
   reviews : {NoReviews, [has |-> TRUE, list |-> <<>>], [has |-> TRUE, list |-> <<5>>]}]

\* every request that touches a stored book, with longer review lists
NextKeep ==
  \/ \E raw \in ReviewInputs : CreateWithBody(raw) /\ Sending
  \/ \E raw \in ReviewInputs : UpdateWithBody(raw) /\ Sending
  \/ DeleteStored /\ Sending
  \/ \E r \in LibRatings : ReviewsBelow(MaxReviews) /\ AddReview(r) /\ Unobserved
  \/ \E e \in LibEmails : BorrowBook(e) /\ Unobserved
  \/ \E e \in LibEmails : ReturnBook(e) /\ Unobserved

SpecKeep == Init /\ [][NextKeep]_vars

(* ------------------- reviews of authenticated users -------------------- *)

\* the paths of the review subdocument schema
ReviewPaths == {"rating", "comment", "reviewerName", "reviewDate"}

\* this.reviews.push(reviewData): the reviewerEmail the stored review
\* carries; a key that is not a path of the schema is not stored
StoredReviewerEmail(email) == IF "reviewerEmail" \in ReviewPaths THEN email ELSE NoStr

AlreadyReviewed == Response(400, "You have already reviewed this book")

\* addReview for a request with req.user.email = user (NoStr: req.user is not
\* set): the response and whether the review is added
AddReviewAuthCtl(stored, user) ==
  IF user # NoStr /\ \E i \in 1..Len(stored) : stored[i] = user
  THEN [added |-> FALSE, res |-> AlreadyReviewed]
  ELSE [added |-> TRUE, res |-> Response(201, "Review added successfully")]

\* POST /api/books/:id/reviews with req.user set by authenticate, or not set
AddReviewAs(user, rating) ==
  /\ req' = Request("review", user)
  /\ scen' = 0
  /\ IF ~Exists
     THEN /\ res' = NotFound
          /\ UNCHANGED <<book, reviewers, reviewedBy>>
     ELSE /\ res' = AddReviewAuthCtl(reviewers, user).res
          /\ IF AddReviewAuthCtl(reviewers, user).added
             THEN /\ book' = <<AddReviewMethod(Doc, rating)>>
                  /\ reviewers' = Append(reviewers, StoredReviewerEmail(user))
                  /\ reviewedBy' = IF user # NoStr THEN reviewedBy \cup {user} ELSE reviewedBy
             ELSE UNCHANGED <<book, reviewers, reviewedBy>>

\* a request of the review history leaves everything else untouched
Reviewing == UNCHANGED <<net, moved, concVars, listVars, catVars, libVars, bodyVars, yearVars, aiVars>>

NextAuth ==
  \/ CreateBook(NoAvail) /\ reviewers' = <<>> /\ reviewedBy' = {} /\ Reviewing
  \/ DeleteBook /\ reviewers' = <<>> /\ reviewedBy' = {} /\ Reviewing
  \/ \E u \in Emails \cup {NoStr}, r \in LibRatings :
       ReviewsBelow(MaxReviews) /\ AddReviewAs(u, r) /\ Reviewing

SpecAuth == Init /\ [][NextAuth]_vars

(* ------------- GET /api/books/stats: publication years ----------------- *)

\* number of distinct publication years (year 1 is the oldest)
MaxYears == 11

\* the numbers of books a publication year can have, and of books without
\* a publication year
YearCounts == {0, 1, 2}
UndatedCounts == {0, 1}

\* { $limit: 10 }
YearStatsLimit == 10

\* a set of years as a sequence, the latest first
Descending(S) ==
  LET InS(y) == y \in S
  IN SelectSeq([i \in 1..MaxYears |-> MaxYears + 1 - i], InS)

\* a set of years as a sequence, the earliest first
Ascending(S) ==
  LET InS(y) == y \in S
  IN SelectSeq([i \in 1..MaxYears |-> i], InS)

\* the groups of the years in the order s, cut at the limit
YearGroups(h, s) ==
  [i \in 1..Len(Take(s, YearStatsLimit)) |-> [year |-> s[i], count |-> h[s[i]]]]

\* the aggregation with { $sort: { _id: 1 } }
YearStatsAscending(h) == YearGroups(h, Ascending({y \in DOMAIN h : h[y] > 0}))

\* yearStats of getBookStats: $match the books with a publication year,
\* $group by year with the count, $sort by year descending, $limit 10
YearStats(h) == YearGroups(h, Descending({y \in DOMAIN h : h[y] > 0}))

InitYears ==
  /\ IdleBase
  /\ IdleCat
  /\ IdleLib
  /\ IdleBody
  /\ IdleAuth
  /\ IdleAi
  /\ hist \in [1..MaxYears -> YearCounts]
  /\ undated \in UndatedCounts
  /\ yearRes = NoAnswer

\* GET /api/books/stats: recentPublications
GetYearStats ==
  /\ yearRes = NoAnswer
  /\ yearRes' = [op |-> "stats", recentPublications |-> YearStats(hist)]
  /\ UNCHANGED <<hist, undated>>

\* the statistics request writes nothing
Counting ==
  UNCHANGED <<book, req, res, net, moved, scen, concVars, listVars, catVars, libVars,
              bodyVars, authVars, aiVars>>

NextYears ==
  \/ GetYearStats /\ Counting

SpecYears == InitYears /\ [][NextYears]_vars

(* --------------------- GET /api/ai/recommendations --------------------- *)

\* the fields of the books of the recommendation catalogues
RecSamples ==
  {Fields(<<65>>, <<99>>, "Fiction", {}, NoNum, 0, 0),
   Fields(<<65>>, <<99>>, "Fiction", {}, NoNum, 40, 1),
   Fields(<<65>>, <<99>>, "Fiction", {}, NoNum, 40, 2),
   Fields(<<65>>, <<99>>, "Sci-Fi", {}, NoNum, 40, 1),
   Fields(<<65>>, <<99>>, "Sci-Fi", {}, NoNum, 45, 1)}

\* the query strings of the recommendation requests (NoStr, NoNum, 0: not
\* given; minRating in tenths)
RecQueries ==
  [genre : {NoStr, "All", "Fiction", "Sci-Fi"}, minRating : {NoNum, 0, 40},
   limit : {0, 1, 2, 51}]

RecDefaultLimit == 10
RecMaxLimit == 50

\* the inline schema of the route reports no error
RecQueryIsValid(raw) ==
  /\ raw.limit >= 0 /\ raw.limit <= RecMaxLimit
  /\ raw.minRating = NoNum \/ (raw.minRating >= 0 /\ raw.minRating <= 50)

\* the value of the validation: limit has the default 10
RecValidate(raw) == [raw EXCEPT !.limit = IF @ = 0 THEN RecDefaultLimit ELSE @]

\* the filter of getRecommendations
RecMatches(b, q) ==
  /\ (q.genre # NoStr /\ q.genre # "All") => b.genre = q.genre
  /\ (q.minRating # NoNum /\ q.minRating # 0) => b.averageRating >= q.minRating

\* a is not after b in .sort({ averageRating: -1, totalReviews: -1 })
RecInOrder(a, b) ==
  \/ a.averageRating > b.averageRating
  \/ a.averageRating = b.averageRating /\ a.totalReviews >= b.totalReviews

\* recommendations sorted by averageRating alone
RecommendedByRating(c, q) ==
  {Take(s, q.limit) : s \in ByRating(c, {i \in 1..Len(c) : RecMatches(c[i], q)})}

\* Book.find(filter).sort({ averageRating: -1, totalReviews: -1 }).limit(limit):
\* the results the query can give; books with equal keys come in any order
Recommended(c, q) ==
  LET M == {i \in 1..Len(c) : RecMatches(c[i], q)}
      n == Cardinality(M)
  IN {Take(s, q.limit) :
        s \in {t \in [1..n -> M] :
                 /\ \A i, j \in 1..n : t[i] = t[j] => i = j
                 /\ \A i, j \in 1..n : i < j => RecInOrder(c[t[i]], c[t[j]])}}

InitRec ==
  /\ IdleBase
  /\ IdleLib
  /\ IdleBody
  /\ IdleAuth
  /\ IdleYears
  /\ IdleAi
  /\ cat \in Catalogues(RecSamples, MaxCat)
  /\ qReq = NoQuery
  /\ qRes = NoAnswer

\* GET /api/ai/recommendations: validateQuery(...), then getRecommendations
GetRecommendations(raw) ==
  /\ qReq = NoQuery
  /\ qReq' = [op |-> "recommend", query |-> raw]
  /\ IF RecQueryIsValid(raw)
     THEN \E out \in Recommended(cat, RecValidate(raw)) :
            qRes' = [op |-> "recommend", code |-> 200, recommendations |-> out]
     ELSE qRes' = [op |-> "recommend", code |-> 400, message |-> "Query validation failed"]

NextRec ==
  \/ \E raw \in RecQueries : GetRecommendations(raw) /\ Asking

SpecRec == InitRec /\ [][NextRec]_vars

(* --------------------------- free-text search --------------------------- *)

\* books the search runs over: titles "ab" and "b", a tag "a" or none, two
\* ratings so that ties occur
SearchSamples ==
  {Fields(t, <<99>>, "Fiction", g, 2000, r, 1) :
     t \in {<<97, 98>>, <<98>>}, g \in {{}, {<<97>>}}, r \in {40, 50}}

\* query strings of GET /api/ai/search (NoText, 0: not given)
SearchQueries == [query : {NoText, <<97>>, <<66>>, <<97, 98>>}, limit : {0, 1}]

\* default of limit in the route's query schema
AiSearchDefaultLimit == 10

\* validateQuery of the route: query is required and not empty
SearchQueryIsValid(raw) == raw.query # NoText

SearchValidate(raw) ==
  [raw EXCEPT !.limit = IF raw.limit = 0 THEN AiSearchDefaultLimit ELSE raw.limit]

\* { $text: { $search: query } } over the text index on title, author and
\* description: a field whose word is the query's word, whatever the case
TextSearch(c, query) ==
  {i \in 1..Len(c) :
     LowerText(query) \in {LowerText(c[i].title), LowerText(c[i].author),
                           LowerText(c[i].description)} \ {NoText}}

\* .sort({ score: { $meta: 'textScore' } }): the matches in the order of a
\* score the query engine computes
ByScore(M) ==
  LET n == Cardinality(M)
  IN {s \in [1..n -> M] : \A i, j \in 1..n : s[i] = s[j] => i = j}

\* the $or of the fallback: title, author, description or a tag contains the
\* query, whatever the case
PartialMatch(c, query) ==
  {i \in 1..Len(c) :
     \/ RegexI(query, c[i].title)
     \/ RegexI(query, c[i].author)
     \/ RegexI(query, c[i].description)
     \/ \E g \in c[i].tags : RegexI(query, g)}

InitSearch ==
  /\ IdleBase
  /\ IdleLib
  /\ IdleBody
  /\ IdleAuth
  /\ IdleYears
  /\ IdleAi
  /\ cat \in Catalogues(SearchSamples, MaxCat)
  /\ qReq = NoQuery
  /\ qRes = NoAnswer

\* GET /api/ai/search: validateQuery(...), then intelligentSearch
IntelligentSearch(raw) ==
  /\ qReq = NoQuery
  /\ qReq' = [op |-> "search", query |-> raw]
  /\ IF ~SearchQueryIsValid(raw)
     THEN qRes' = [op |-> "search", code |-> 400, message |-> "Query validation failed"]
     ELSE LET q == SearchValidate(raw)
          IN IF TextSearch(cat, q.query) = {}
             THEN \E s \in ByRating(cat, PartialMatch(cat, q.query)) :
                    qRes' = [op |-> "search", code |-> 200, searchType |-> "partial_match",
                             results |-> Take(s, q.limit)]
             ELSE \E s \in ByScore(TextSearch(cat, q.query)) :
                    qRes' = [op |-> "search", code |-> 200, searchType |-> "text_search",
                             results |-> Take(s, q.limit)]

NextSearch ==
  \/ \E raw \in SearchQueries : IntelligentSearch(raw) /\ Asking

SpecSearch == InitSearch /\ [][NextSearch]_vars

(* ------------------------- the assistant routes ------------------------- *)

\* number of exchanges kept in the log
MaxServed == 2

\* shortest userPrompt the generate-book route accepts
MinPrompt == 3

\* bodies of POST /api/ai/generate-book: no userPrompt, "ab", "abc"
GenPrompts == {NoText, <<97, 98>>, <<97, 98, 99>>}

\* validate(Joi.object({ userPrompt: Joi.string().trim().min(3).required() }))
PromptIsValid(p) == Len(p) >= MinPrompt

\* what model.generateContent can settle with: a rejection, or a text given
\* as its pieces (a JSON object, the opening and closing Markdown fence, prose)
GenAnswers ==
  {[kind |-> "rejected"]} \cup
  {[kind |-> "text", text |-> t] :
     t \in {<<"{}">>, <<"fence json", "{}", "fence">>, <<"Sure:", "{}">>, <<>>, <<"{", "}", "{}">>}}

\* the two text.replace(..., '') that take the Markdown fences out, and trim()
CleanedText(text) == SelectSeq(text, LAMBDA t : t \notin {"fence json", "fence"})

\* JSON.parse(cleanedText) returns: the text is one JSON value
JsonParses(text) == text = <<"{}">>

\* the error the catch block hands to next()
GenerateFailed == Thrown("Failed to generate book details from AI.")

\* the try block ignoring what JSON.parse did
GenerateResponseUnparsed(got) ==
  IF got.kind = "text"
  THEN [code |-> 200, data |-> CleanedText(got.text)]
  ELSE GenerateFailed

\* the try/catch of generateBookDetails once generateContent has settled
GenerateResponse(got) ==
  IF got.kind = "text" /\ JsonParses(CleanedText(got.text))
  THEN [code |-> 200, data |-> CleanedText(got.text)]
  ELSE GenerateFailed

\* POST /api/ai/generate-book up to the await of model.generateContent
GenerateBookDetails(p) ==
  /\ aiPc = "idle"
  /\ Len(aiLog) < MaxServed
  /\ aiReq' = [op |-> "generate", userPrompt |-> p]
  /\ aiGot' = NoAnswer
  /\ IF PromptIsValid(p)
     THEN /\ aiPc' = "generateContent"
          /\ aiCalls' = 1
          /\ aiSent' = <<>>
     ELSE /\ aiPc' = "returned"
          /\ aiCalls' = 0
          /\ aiSent' = <<Response(400, "Validation failed")>>
  /\ UNCHANGED aiLog

\* model.generateContent settles and generateBookDetails runs to its end
GenerateContentSettles(got) ==
  /\ aiPc = "generateContent"
  /\ aiGot' = got
  /\ aiSent' = Append(aiSent, GenerateResponse(got))
  /\ aiPc' = "returned"
  /\ UNCHANGED <<aiReq, aiCalls, aiLog>>

\* the response reaches the caller: the exchange is over
Close ==
  /\ aiPc = "returned"
  /\ aiSent # <<>>
  /\ aiLog' = Append(aiLog, [req |-> aiReq, got |-> aiGot, sent |-> aiSent, calls |-> aiCalls])
  /\ aiReq' = NoQuery
  /\ aiPc' = "idle"
  /\ aiCalls' = 0
  /\ aiGot' = NoAnswer
  /\ aiSent' = <<>>

\* a request to an assistant route leaves everything else untouched
Assisting ==
  UNCHANGED <<book, req, res, net, moved, scen, concVars, listVars, catVars, libVars,
              bodyVars, authVars, yearVars>>

NextGenerate ==
  \/ \E p \in GenPrompts : GenerateBookDetails(p) /\ Assisting
  \/ \E got \in GenAnswers : GenerateContentSettles(got) /\ Assisting
  \/ Close /\ Assisting

SpecGenerate == Init /\ [][NextGenerate]_vars

(* --------------------- every route and its response -------------------- *)

\* the routes of bookRoutes.js and aiRoutes.js whose handler awaits the
\* document store
StoreRoutes ==
  {"list", "create", "stats", "available", "byGenre", "get", "update", "delete", "review",
   "borrow", "return", "recommendations", "similar", "trending", "search"}

\* routes with a validate, validateQuery or validateParams step
CheckedRoutes == StoreRoutes \ {"stats", "available", "byGenre"}

\* handlers with a branch for a document that is not there
NotFoundRoutes == {"byGenre", "get", "update", "delete", "review", "borrow", "return", "similar"}

\* handlers with a branch that refuses the request of a rule
RefusingRoutes == {"review", "borrow", "return"}

\* handlers of the controller copy that have an empty body
StubRoutes == {"search", "trending"}

\* how the store calls of a handler can end
StoreAnswers(op) ==
  {"value", "rejected"}
    \cup (IF op \in NotFoundRoutes THEN {"null"} ELSE {})
    \cup (IF op \in RefusingRoutes THEN {"refused"} ELSE {})

\* what the handler sends once its store calls have settled: its own
\* response, or the error it hands to next()
HandlerResponse(op, got) ==
  IF got = "rejected" THEN Thrown("Something went wrong")
  ELSE IF got = "null" THEN Response(404, "not found")
  ELSE IF got = "refused" THEN Response(400, "refused")
  ELSE Response(IF op \in {"create", "review"} THEN 201 ELSE 200, "success")

\* a request reaches a route: the validation step answers it, or the handler
\* runs up to its first await
Route(op, valid) ==
  /\ aiPc = "idle"
  /\ Len(aiLog) < MaxServed
  /\ valid \/ op \in CheckedRoutes
  /\ aiReq' = [op |-> op, valid |-> valid]
  /\ aiGot' = NoAnswer
  /\ aiCalls' = 0
  /\ IF valid
     THEN /\ aiPc' = "store"
          /\ aiSent' = <<>>
     ELSE /\ aiPc' = "returned"
          /\ aiSent' = <<Response(400, "Validation failed")>>
  /\ UNCHANGED aiLog

\* the same for intelligentSearch and getTrendingBooks of the controller copy
\* whose bodies are empty: the handler returns at once
RouteToStub(op, valid) ==
  /\ aiPc = "idle"
  /\ Len(aiLog) < MaxServed
  /\ aiReq' = [op |-> op, valid |-> valid]
  /\ aiGot' = NoAnswer
  /\ aiCalls' = 0
  /\ aiPc' = "returned"
  /\ aiSent' = IF valid THEN <<>> ELSE <<Response(400, "Validation failed")>>
  /\ UNCHANGED aiLog

\* the store calls of the handler settle and it runs to its end
StoreSettles(got) ==
  /\ aiPc = "store"
  /\ got \in StoreAnswers(aiReq.op)
  /\ aiGot' = [kind |-> got]
  /\ aiSent' = Append(aiSent, HandlerResponse(aiReq.op, got))
  /\ aiPc' = "returned"
  /\ UNCHANGED <<aiReq, aiCalls, aiLog>>

\* the steps taken by the collaborators and the event loop
Settling ==
  \/ \E got \in GenAnswers : GenerateContentSettles(got) /\ Assisting
  \/ \E got \in {"value", "null", "refused", "rejected"} : StoreSettles(got) /\ Assisting
  \/ Close /\ Assisting

NextRoutes ==
  \/ \E p \in GenPrompts : GenerateBookDetails(p) /\ Assisting
  \/ \E op \in StoreRoutes, valid \in BOOLEAN : Route(op, valid) /\ Assisting
  \/ \E op \in StubRoutes, valid \in BOOLEAN : RouteToStub(op, valid) /\ Assisting
  \/ \E got \in GenAnswers : GenerateContentSettles(got) /\ Assisting
  \/ \E got \in {"value", "null", "refused", "rejected"} : StoreSettles(got) /\ Assisting
  \/ Close /\ Assisting

\* the collaborators answer and the event loop runs every callback that is
\* ready; callers are free to send nothing
SpecRoutes == Init /\ [][NextRoutes]_vars /\ WF_vars(Settling)

(* ----------------------- the body of a review -------------------------- *)

\* bodies of POST /api/books/:id/reviews: the rating in tenths (NoNum: not
\* given), the reviewerName as typed (32 is a space)
ReviewBodies ==
  [rating : {NoNum, 0, 10, 30, 45, 50, 60}, reviewerName : {NoText, <<32>>, <<32, 97>>}]

\* String.prototype.trim on the leading and trailing spaces
RECURSIVE Trim(_)
Trim(t) ==
  IF t = <<>> THEN t
  ELSE IF Head(t) = 32 THEN Trim(Tail(t))
  ELSE IF t[Len(t)] = 32 THEN Trim(SubSeq(t, 1, Len(t) - 1))
  ELSE t

\* the review schema of the middleware without min(1) and max(5)
ReviewBodyAnyRating(b) ==
  /\ b.rating # NoNum
  /\ b.rating % 10 = 0
  /\ Len(Trim(b.reviewerName)) >= 1

\* schemas.review reports no error: rating is an integer of 1..5, the trimmed
\* reviewerName is not empty
ReviewBodyIsValid(b) ==
  /\ b.rating # NoNum
  /\ b.rating % 10 = 0
  /\ b.rating >= 10
  /\ b.rating <= 50
  /\ Len(Trim(b.reviewerName)) >= 1

\* the validators of the rating path of the model's review schema: min 1, max 5
RatingPathRejects(rating) == rating < 1 \/ rating > 5

\* POST /api/books/:id/reviews: validate(schemas.review), then addReview
AddReviewWithBody(b) ==
  /\ req' = Request("review", NoStr)
  /\ sent' = b
  /\ IF ~ReviewBodyIsValid(b)
     THEN /\ book' = book
          /\ res' = Response(400, "Validation failed")
     ELSE IF ~Exists
     THEN /\ book' = book
          /\ res' = NotFound
     ELSE IF RatingPathRejects(b.rating \div 10)
     THEN /\ book' = book
          /\ res' = Thrown("Book validation failed")
     ELSE /\ book' = <<AddReviewCtl(Doc, b.rating \div 10).doc>>
          /\ res' = AddReviewCtl(Doc, b.rating \div 10).res
  /\ scen' = 0
  /\ UNCHANGED <<meta, issued, clock, born>>

NextRate ==
  \/ CreateBook(NoAvail) /\ Unobserved
  \/ DeleteBook /\ Unobserved
  \/ \E b \in ReviewBodies : ReviewsBelow(MaxReviews) /\ AddReviewWithBody(b) /\ Sending

SpecRate == Init /\ [][NextRate]_vars

(* ------------------------------ properties ----------------------------- *)

Clamp(x, lo, hi) == IF x < lo THEN lo ELSE IF x > hi THEN hi ELSE x

InLedger(d, email) == \E i \in 1..Len(d.borrowedBy) : d.borrowedBy[i] = email

NoDuplicates(s) == \A i, j \in 1..Len(s) : s[i] = s[j] => i = j

NoCopies == Response(400, "No copies available for borrowing")
AlreadyBorrowed == Response(400, "You have already borrowed this book")
NoBorrowRecord == Response(400, "No borrow record found for this email")

\* C1: after every mutation the stored book has
\* 0 <= availableCopies <= totalCopies.
C1_CopiesWithinTotal ==
  Exists => (0 <= Doc.availableCopies /\ Doc.availableCopies <= Doc.totalCopies)

\* C2: after a run of borrow and return requests in which N borrows and M
\* returns succeeded, availableCopies is the run's initial availableCopies
\* - N + M, clamped within [0, totalCopies].
C2_NetOfBorrowsAndReturns ==
  (Exists /\ moved) => Doc.availableCopies = Clamp(net, 0, Doc.totalCopies)

\* C3: a borrow request on a book with availableCopies = 0 fails with the
\* no-copies error and leaves the stored book unchanged.
C3_BorrowWithoutCopies ==
  [][(Exists /\ Doc.availableCopies = 0 /\ req'.op = "borrow")
       => (book' = book /\ res' = NoCopies)]_vars

C3_Witness ==
  /\ Exists
  /\ Doc.availableCopies = 0
  /\ Doc.totalCopies > 0
  /\ req.op = "borrow"
  /\ res = NoCopies

C5_DuplicateAlwaysReported ==
  [][(Exists /\ req'.op = "borrow" /\ InLedger(Doc, req'.email))
       => (book' = book /\ res' = AlreadyBorrowed)]_vars

\* C5 as amended: the ledger holds at most one entry per email, and a borrow by
\* an email already in the ledger is rejected without changing the book, as a
\* duplicate borrower when copies are available and as no copies available
\* when availableCopies is 0.
C5_OneEntryPerEmail ==
  /\ [](Exists => NoDuplicates(Doc.borrowedBy))
  /\ [][(Exists /\ req'.op = "borrow" /\ InLedger(Doc, req'.email))
          => /\ book' = book
             /\ res' = IF Doc.availableCopies > 0 THEN AlreadyBorrowed ELSE NoCopies]_vars

C5_Witness ==
  /\ Exists
  /\ req.op = "borrow"
  /\ InLedger(Doc, req.email)
  /\ Doc.availableCopies > 0
  /\ res = AlreadyBorrowed

\* C6: averageRating is the mean of the stored ratings rounded to one decimal
\* (0 without reviews) and totalReviews is their number; ratings 5 then 3
\* give 4.0 and 2.
C6_RatingIsRoundedMean ==
  Exists =>
    LET n == Len(Doc.reviews)
        sum == SumSeq(Doc.reviews)
        r == Doc.averageRating
        diff == 10 * sum - r * n
    IN /\ Doc.totalReviews = n
       /\ n = 0 => r = 0
       /\ n > 0 => (2 * diff <= n /\ -2 * diff <= n)
       /\ Doc.reviews = <<5, 3>> => (r = 40 /\ Doc.totalReviews = 2)

C6_Witness ==
  /\ Exists
  /\ Doc.reviews = <<5, 5, 4>>
  /\ Doc.averageRating = 47
  /\ Doc.totalReviews = 3

\* C7: after every mutation, status is Borrowed iff availableCopies = 0 and
\* totalCopies > 0, and Available whenever availableCopies > 0 (books in
\* Reserved or Maintenance aside).
C7_StatusFollowsCopies ==
  (Exists /\ Doc.status \in {"Available", "Borrowed"}) =>
    /\ Doc.status = "Borrowed" <=> (Doc.availableCopies = 0 /\ Doc.totalCopies > 0)
    /\ Doc.availableCopies > 0 => Doc.status = "Available"

\* C8: create with totalCopies=2, then borrow a, borrow b, borrow c, return a:
\* 1 copy and Available, 0 copies and Borrowed, the third borrow fails for
\* lack of copies, 1 copy and Available.
C8_Scenario ==
  /\ scen = 2 => (Exists /\ Doc.availableCopies = 1 /\ Doc.status = "Available")
  /\ scen = 3 => (Exists /\ Doc.availableCopies = 0 /\ Doc.status = "Borrowed")
  /\ scen = 4 => (res = NoCopies /\ Doc.availableCopies = 0 /\ Doc.status = "Borrowed")
  /\ scen = 5 => (Exists /\ Doc.availableCopies = 1 /\ Doc.status = "Available")

\* the same scenario when the create request also carries availableCopies=2
ScenarioWithBothCounts ==
  /\ scen = 12 => (Exists /\ Doc.availableCopies = 1 /\ Doc.status = "Available")
  /\ scen = 13 => (Exists /\ Doc.availableCopies = 0 /\ Doc.status = "Borrowed")
  /\ scen = 14 => (res = NoCopies /\ Doc.availableCopies = 0 /\ Doc.status = "Borrowed")
  /\ scen = 15 => (Exists /\ Doc.availableCopies = 1 /\ Doc.status = "Available")

Succeeded(op) == {p \in Procs : pc[p] = "done" /\ preq[p].op = op /\ pres[p].code = 200}

\* C9: borrow, return and addReview each act as one atomic update: when the
\* requests of two handlers on the same book interleave, availableCopies ends
\* at its initial value minus the successful borrows plus the successful
\* returns (two successful borrows lower it by 2).
C9_NoLostUpdate ==
  (\A p \in Procs : pc[p] = "done") =>
    book[1].availableCopies =
      avail0 - Cardinality(Succeeded("borrow")) + Cardinality(Succeeded("return"))

\* C10: for a list request with page p and limit L over totalBooks matching
\* records, totalPages = ceil(totalBooks / L), hasNextPage = (p < totalPages),
\* hasPrevPage = (p > 1); with L = 10 and totalBooks = 25, totalPages is 3 and
\* page 3 returns the remaining 5 records.
C10_Pagination ==
  listRes.limit > 0 =>
    LET p == listRes.currentPage
        L == listRes.limit
        T == listRes.totalBooks
        tp == listRes.totalPages
        before == (p - 1) * L
    IN /\ p = (IF listReq.page = 0 THEN 1 ELSE listReq.page)
       /\ L = (IF listReq.limit = 0 THEN 10 ELSE listReq.limit)
       /\ tp * L >= T /\ (tp - 1) * L < T
       /\ listRes.hasNextPage = (p < tp)
       /\ listRes.hasPrevPage = (p > 1)
       /\ Len(listRes.books) = (IF T - before > L THEN L ELSE IF T > before THEN T - before ELSE 0)
       /\ \A i \in 1..Len(listRes.books) : listRes.books[i] = before + i
       /\ (L = 10 /\ T = 25) => (tp = 3 /\ (p = 3 => listRes.books = <<21, 22, 23, 24, 25>>))

C10_Witness ==
  /\ listReq = [page |-> 3, limit |-> 10]
  /\ listRes.totalBooks = 25
  /\ listRes.totalPages = 3
  /\ Len(listRes.books) = 5
  /\ ~listRes.hasNextPage
  /\ listRes.hasPrevPage

\* the raw query of a served list request
ListServed == qReq.op = "list" /\ qRes.code = 200

\* C11: a list request without sortBy, sortOrder, page and limit returns page
\* 1 of size 10 with the books in descending order of creation time.
C11_DefaultListOrder ==
  (ListServed /\ qReq.query.sortBy = NoStr /\ qReq.query.sortOrder = NoStr
     /\ qReq.query.page = 0 /\ qReq.query.limit = 0)
  => /\ qRes.data.currentPage = 1
     /\ qRes.data.limit = 10
     /\ \A i, j \in 1..Len(qRes.data.books) :
          i < j => cat[qRes.data.books[i]].createdAt > cat[qRes.data.books[j]].createdAt

\* book b contains the text in its title, author or description, whatever
\* the case of the letters
Mentions(b, text) ==
  RegexI(text, b.title) \/ RegexI(text, b.author) \/ RegexI(text, b.description)

\* C12: every book a list request returns satisfies the search, yearFrom and
\* yearTo parameters the request supplies.
C12_FiltersApplied ==
  ListServed =>
    \A i \in 1..Len(qRes.data.books) :
      LET b == cat[qRes.data.books[i]]
          q == qReq.query
      IN /\ q.search # NoText => Mentions(b, q.search)
         /\ q.yearFrom # NoNum => (b.publicationYear # NoNum /\ b.publicationYear >= q.yearFrom)
         /\ q.yearTo # NoNum => (b.publicationYear # NoNum /\ b.publicationYear <= q.yearTo)

\* C13: deleting an id that is not in the collection answers not-found and
\* changes nothing, deleting a stored book removes it, and a deleted id never
\* comes back: every later delete of it answers not-found.
C13_DeleteNotFound ==
  /\ [](gone \cap DOMAIN lib = {})
  /\ [][libReq'.op = "delete" =>
          IF Has(libReq'.id)
          THEN ~(libReq'.id \in DOMAIN lib') /\ libRes'.code = 200
          ELSE lib' = lib /\ libRes' = NotFound]_vars

\* a second delete of a deleted id has been answered
C13_Witness ==
  /\ libReq.op = "delete"
  /\ libReq.id \in gone
  /\ libRes = NotFound
  /\ lib # <<>>

\* C14: a similar-books request for an unknown id answers not-found; for a
\* stored reference it returns at most limit books (5 when no limit is given),
\* never the reference, each sharing the genre, the author or a tag of the
\* reference, in descending order of averageRating.
C14_SimilarBooks ==
  qReq.op = "similar" =>
    IF qReq.id \in 1..Len(cat)
    THEN LET ref == cat[qReq.id]
             out == qRes.similarBooks
         IN /\ qRes.code = 200
            /\ Len(out) <= (IF qReq.limit = 0 THEN 5 ELSE qReq.limit)
            /\ \A i \in 1..Len(out) :
                 /\ out[i] # qReq.id
                 /\ \/ cat[out[i]].genre = ref.genre
                    \/ cat[out[i]].author = ref.author
                    \/ cat[out[i]].tags \cap ref.tags # {}
            /\ \A i, j \in 1..Len(out) :
                 i < j => cat[out[i]].averageRating >= cat[out[j]].averageRating
    ELSE qRes.code = 404

ManualStatuses == {"Reserved", "Maintenance"}

\* C15: a borrow or a return on a book whose status is Reserved or
\* Maintenance leaves the status as it is.
C15_ManualStatusKept ==
  [][(Exists /\ Doc.status \in ManualStatuses /\ req'.op \in {"borrow", "return"})
       => (book' # <<>> /\ book'[1].status = Doc.status)]_vars

\* C16: whatever a create or update body carries, the stored averageRating
\* and totalReviews are those of the review list (the mean to the nearest
\* tenth and the length, 0 without reviews) and the stored id and createdAt
\* are those the system gave at creation.
C16_DerivedFields ==
  Exists =>
    /\ Doc.totalReviews = Len(Doc.reviews)
    /\ Doc.averageRating = (IF Doc.reviews = <<>> THEN 0 ELSE AverageOf(Doc.reviews))
    /\ meta = born

\* an update whose body carried all four fields has been served on a book
\* with a review
C16_Witness ==
  /\ Exists
  /\ req.op = "update"
  /\ res.code = 200
  /\ sent.averageRating # NoNum /\ sent.totalReviews # NoNum
  /\ sent.id # NoNum /\ sent.createdAt # NoNum
  /\ Len(Doc.reviews) = 1

\* C17: a review request of an authenticated user whose review of the book
\* was accepted before is answered with the duplicate-review error, and the
\* book (reviews, averageRating, totalReviews) stays as it is.
C17_DuplicateReviewRejected ==
  [][(Exists /\ req'.op = "review" /\ req'.email \in reviewedBy)
       => (res' = AlreadyReviewed /\ book' = book)]_vars

\* the publication years of the stored books, those the breakdown lists and
\* the number of years it must list
YearsPresent == {y \in DOMAIN hist : hist[y] > 0}
YearsListed == {yearRes.recentPublications[i].year : i \in 1..Len(yearRes.recentPublications)}
YearsDue == Min(10, Cardinality(YearsPresent))

\* the breakdown lists distinct years of stored books, the most recent first,
\* each with its number of books, and as many as are due
YearListWellFormed ==
  LET out == yearRes.recentPublications
  IN /\ Len(out) = YearsDue
     /\ \A i \in 1..Len(out) : out[i].year \in YearsPresent /\ out[i].count = hist[out[i].year]
     /\ \A i, j \in 1..Len(out) : i < j => out[i].year > out[j].year

\* C18 as stated: the breakdown lists the 10 years with the highest counts
\* (all years when fewer than 10), the most recent year first: no year left
\* out has more books than a listed year.
C18_TopYearsByCount ==
  yearRes.op = "stats" =>
    /\ YearListWellFormed
    /\ \A y \in YearsListed, z \in YearsPresent \ YearsListed : hist[z] <= hist[y]

\* C18 amended: the breakdown lists the 10 most recent publication years (all
\* years when fewer than 10), each with its number of books, the most recent
\* year first: no year left out is later than a listed year.
C18_MostRecentYears ==
  yearRes.op = "stats" =>
    /\ YearListWellFormed
    /\ \A y \in YearsListed, z \in YearsPresent \ YearsListed : z < y

\* a breakdown of a collection with more than 10 publication years, and
\* books without a year, has been served
C18_Witness ==
  /\ yearRes.op = "stats"
  /\ Cardinality(YearsPresent) > 10
  /\ Len(yearRes.recentPublications) = 10
  /\ undated > 0

\* the sum of the totalReviews of the stored books, counted value by value
RECURSIVE ReviewsUpTo(_)
ReviewsUpTo(k) ==
  IF k = 0 THEN 0
  ELSE k * Cardinality({i \in DOMAIN lib : lib[i].totalReviews = k}) + ReviewsUpTo(k - 1)

\* C19: the overview of a statistics response gives the number of stored
\* books, the numbers of books with status Available and with status
\* Borrowed and the sum of the totalReviews of the books, all 0 for an empty
\* collection, and these are the values replayed from the create, delete,
\* borrow, return and review requests served so far.
C19_Overview ==
  libReq.op = "stats" =>
    /\ libRes.code = 200
    /\ libRes.overview.totalBooks = Cardinality(DOMAIN lib)
    /\ libRes.overview.availableBooks =
         Cardinality({i \in DOMAIN lib : lib[i].status = "Available"})
    /\ libRes.overview.borrowedBooks =
         Cardinality({i \in DOMAIN lib : lib[i].status = "Borrowed"})
    /\ libRes.overview.totalReviews = ReviewsUpTo(MaxReviews + 1)
    /\ libRes.overview = tally
    /\ lib = <<>> => libRes.overview = NoTally

\* the statistics of two books have been served: one reviewed and lent out,
\* one reserved
C19_Witness ==
  /\ libReq.op = "stats"
  /\ Cardinality(DOMAIN lib) = 2
  /\ libRes.overview.borrowedBooks = 1
  /\ libRes.overview.availableBooks = 0
  /\ libRes.overview.totalReviews = 1

\* book b qualifies for the recommendation request q
Qualifies(b, q) ==
  /\ q.genre \in {NoStr, "All"} \/ b.genre = q.genre
  /\ q.minRating = NoNum \/ b.averageRating >= q.minRating

\* a ranks above b: a higher averageRating, or the same with more reviews
RanksAbove(a, b) ==
  \/ a.averageRating > b.averageRating
  \/ a.averageRating = b.averageRating /\ a.totalReviews > b.totalReviews

\* C20: a served recommendation request returns at most limit books (10 when
\* no limit is given), all different, each qualifying for the genre and the
\* minimum rating, none ranked below a later one, and no qualifying book that
\* is left out ranks above a returned one; books are left out only when the
\* limit is reached.
C20_Recommendations ==
  (qReq.op = "recommend" /\ qRes.code = 200) =>
    LET q == qReq.query
        out == qRes.recommendations
        cap == IF q.limit = 0 THEN 10 ELSE q.limit
        Q == {i \in 1..Len(cat) : Qualifies(cat[i], q)}
        R == {out[i] : i \in 1..Len(out)}
    IN /\ Len(out) = Min(cap, Cardinality(Q))
       /\ Cardinality(R) = Len(out)
       /\ R \subseteq Q
       /\ \A i, j \in 1..Len(out) : i < j => ~RanksAbove(cat[out[j]], cat[out[i]])
       /\ \A z \in Q \ R, y \in R : ~RanksAbove(cat[z], cat[y])

\* a request with a genre, a minimum rating and a limit has been served and
\* a qualifying book was left out
C20_Witness ==
  /\ qReq.op = "recommend"
  /\ qRes.code = 200
  /\ qReq.query.genre = "Fiction"
  /\ qReq.query.minRating = 40
  /\ qReq.query.limit = 1
  /\ Cardinality({i \in 1..Len(cat) : Qualifies(cat[i], qReq.query)}) > 1
  /\ Len(qRes.recommendations) = 1

\* the substring matches of the served search in the order the fallback is
\* said to give: descending averageRating, ties by id
RatingThenId(c, M) ==
  CHOOSE s \in ByRating(c, M) :
    \A i, j \in 1..Len(s) :
       (i < j /\ c[s[i]].averageRating = c[s[j]].averageRating) => s[i] < s[j]

\* C21: a search falls back to the substring match over title, author,
\* description and tags only when the ranked text search finds nothing, and
\* the fallback list is the matches by descending averageRating, ties broken
\* by id
C21_FallbackDeterministic ==
  (qReq.op = "search" /\ qRes.code = 200) =>
    LET q == SearchValidate(qReq.query)
    IN /\ (qRes.searchType = "partial_match") <=> (TextSearch(cat, q.query) = {})
       /\ qRes.searchType = "partial_match" =>
            qRes.results = Take(RatingThenId(cat, PartialMatch(cat, q.query)), q.limit)


\* the collaborator rejected, or answered a text that is not one JSON value
\* once its fences are taken out
CollaboratorFailed ==
  /\ aiReq.op = "generate"
  /\ aiPc = "returned"
  /\ aiGot # NoAnswer
  /\ \/ aiGot.kind = "rejected"
     \/ SelectSeq(aiGot.text, LAMBDA t : t \notin {"fence json", "fence"}) # <<"{}">>

C23_ExactlyOneResponse ==
  /\ [](Len(aiSent) <= 1)
  /\ (aiReq # NoQuery) ~> (Len(aiSent) = 1)


\* the served list request without its "All" genre and without its unknown
\* parameter
WithoutNoOps(raw) ==
  [raw EXCEPT !.genre = IF @ = "All" THEN NoStr ELSE @, !.unknown = NoStr]

\* the served list request leaves a filter out, or carries the "All" genre or
\* a parameter nobody knows
HasNoOp(raw) ==
  \/ raw.genre \in {NoStr, "All"}
  \/ raw.availability = NoStr
  \/ raw.unknown # NoStr

\* C24: a list request with an absent filter, the genre "All" or an unknown
\* parameter is not rejected for it and returns the books the same request
\* without that parameter returns
C24_NoOpFilters ==
  (qReq.op = "list" /\ HasNoOp(qReq.query)) =>
    LET ref == WithoutNoOps(qReq.query)
    IN IF QueryIsValid(ref)
       THEN /\ qRes.code = 200
            /\ \E s \in SortedFinds(cat, ValidateQuery(ref)) :
                 qRes.data = ListData(s, ValidateQuery(ref))
       ELSE qRes = QueryValidationFailed

C24_Witness ==
  /\ qReq.op = "list"
  /\ qReq.query.genre = "All"
  /\ qReq.query.unknown # NoStr
  /\ qRes.code = 200
  /\ Len(cat) >= 2
  /\ \E i, j \in 1..Len(cat) : cat[i].genre # cat[j].genre


\* the body of a review names a rating outside 1..5 or has no reviewerName
BadReview(b) ==
  \/ b.rating < 10
  \/ b.rating > 50
  \/ \A i \in 1..Len(b.reviewerName) : b.reviewerName[i] = 32

\* C25: a review whose rating is outside 1..5 or whose reviewerName is empty
\* fails with the validation error and leaves reviews, averageRating and
\* totalReviews as they were; every stored review has an integer rating of 1..5
C25_ReviewValidated ==
  /\ [](Exists => \A i \in 1..Len(Doc.reviews) : Doc.reviews[i] \in 1..5)
  /\ [][(req'.op = "review" /\ BadReview(sent')) =>
          /\ res' = Response(400, "Validation failed")
          /\ book' = book]_vars

C25_Witness ==
  /\ req.op = "review"
  /\ sent \in ReviewBodies
  /\ sent.rating = 60
  /\ Len(Trim(sent.reviewerName)) = 1
  /\ res = Response(400, "Validation failed")
  /\ Exists
  /\ Len(Doc.reviews) >= 1


\* the document the schema defaults alone give
DefaultDoc ==
  [status |-> "Available", totalCopies |-> 1, availableCopies |-> 1, borrowedBy |-> <<>>,
   reviews |-> <<>>, averageRating |-> 0, totalReviews |-> 0]

\* C26: a book created by a valid creation request without an availability
\* object starts Available with totalCopies 1, availableCopies 1, no
\* borrowers, no reviews, averageRating 0 and totalReviews 0, whatever else the
\* request carries
C26_CreatedWithDefaults ==
  (req.op = "create" /\ res.code = 201 /\ sent.avail = NoAvail) =>
    (Exists /\ Doc = DefaultDoc)

C26_Witness ==
  /\ req.op = "create"
  /\ res.code = 201
  /\ sent.avail = NoAvail
  /\ sent.reviews = [has |-> TRUE, list |-> <<5>>]
  /\ sent.averageRating = 50
  /\ sent.totalReviews = 7
  /\ Doc = DefaultDoc

\* C27: while a book lives, every request (update, review, borrow, return)
\* leaves the stored reviews as a prefix of the new review list, and
\* totalReviews does not decrease
C27_ReviewsAppendOnly ==
  [][(Exists /\ book' # <<>>) =>
       /\ Len(book'[1].reviews) >= Len(Doc.reviews)
       /\ SubSeq(book'[1].reviews, 1, Len(Doc.reviews)) = Doc.reviews
       /\ book'[1].totalReviews >= Doc.totalReviews]_vars

C27_Witness ==
  /\ req.op = "update"
  /\ res.code = 200
  /\ sent.reviews = [has |-> TRUE, list |-> <<>>]
  /\ Exists
  /\ Len(Doc.reviews) = 1
  /\ Doc.totalReviews = 1


\* C28: for a book that is created, borrowed and returned and never updated,
\* every successful borrow or return keeps availableCopies plus the number of
\* ledger entries, and the borrowers never outnumber totalCopies
C28_CopiesConserved ==
  /\ [](Exists => Len(Doc.borrowedBy) <= Doc.totalCopies)
  /\ [][(Exists /\ book' # <<>> /\ req'.op \in {"borrow", "return"} /\ res'.code = 200) =>
          book'[1].availableCopies + Len(book'[1].borrowedBy)
            = Doc.availableCopies + Len(Doc.borrowedBy)]_vars

\* a return has succeeded on a book that still has a borrower and was created
\* with more availableCopies than totalCopies allow
C28_Witness ==
  /\ Exists
  /\ req.op = "return"
  /\ res.code = 200
  /\ Len(Doc.borrowedBy) = 1
  /\ Doc.availableCopies = 1
  /\ Doc.totalCopies = 2


\* C29: an update, one with an availability object included, leaves the
\* ledger of borrowers exactly as it was
C29_UpdateKeepsLedger ==
  [][(req'.op = "update" /\ Exists /\ book' # <<>>) =>
       book'[1].borrowedBy = Doc.borrowedBy]_vars


\* C30: when the interleaved requests on a book are borrows, a book that had
\* k available copies gets at most k new ledger entries, and two borrows with
\* the same email do not both succeed
C30_BorrowsAtomic ==
  (\A p \in Procs : pc[p] = "done" /\ preq[p].op = "borrow") =>
    /\ Cardinality(Succeeded("borrow")) <= avail0
    /\ \A p, q \in Procs :
         (p # q /\ preq[p].email = preq[q].email) =>
           ~(pres[p].code = 200 /\ pres[q].code = 200)


====
